---- MODULE Spec2Model ----
(***************************************************************************)
(* RPM process supervisor: the ProcessManager roster (src/src/process.rs), *)
(* its persisted state (src/src/config.rs) and the monitor pass driven by  *)
(* the daemon harness (src/src/daemon.rs).  Spec takes each IPC request as *)
(* one step under the manager lock; SpecIpc and SpecTwo follow the         *)
(* connection tasks of src/src/ipc.rs step by step.  The other             *)
(* specifications each follow one part of the program with the inputs it   *)
(* needs: SpecRound a saved roster loaded by a fresh manager, SpecStop the *)
(* awaits of ManagedProcess::stop, SpecPipes the output of a child,        *)
(* SpecLogs get_logs over every log buffer, SpecAnswers every request      *)
(* about one entry, SpecPass the monitor over two entries, SpecSave the    *)
(* four mutating requests, SpecRestart restarts whose spawn fails,         *)
(* SpecAuto the monitor's own restarts of a capped entry, SpecStay an      *)
(* entry a client stopped, SpecParse connections that send malformed       *)
(* frames.                                                                 *)
(*                                                                         *)
(* Time is counted in units of 500 ms.  An Instant is kept as the time     *)
(* elapsed since it (what Instant::elapsed() returns), up to the           *)
(* cool-down, the only duration it is ever compared with.  A child handle  *)
(* and the pid of the child it owns are both represented by the child's    *)
(* number in the process table, which the system reuses once the child has *)
(* been reaped; ids are likewise drawn afresh among those not in use.      *)
(***************************************************************************)
EXTENDS Integers, Sequences, FiniteSets, TLC

VARIABLES
    processes,  \* ProcessManager.processes: name -> ManagedProcess
    file,       \* processes.json: [exists, content: the JSON array of ProcessConfig]
    os,         \* process table: child not yet reaped -> "alive" | "exit_ok" | "exit_err"
    platform,   \* "unix" | "windows": which cfg branch was built
    mon,        \* the monitor task: position in monitor_processes, which holds the manager lock
    last,       \* the manager call that returned in the last step, if any: [op, result]
    faults,     \* number of environment failures so far (spawn, signal, reap, sample, file)
    lock,       \* the connection whose handle_request holds the manager Mutex, if any
    conns,      \* the connection tasks: position in the read loop, request, response
    ticks,      \* deadlines of the monitor's interval reached and not yet taken by tick()
    daemon,     \* "running" | "down": whether DaemonManager::run has returned
    pipes       \* child -> lines it has written to its stdout and stderr pipes, still unread

vars == <<processes, file, os, platform, mon, last, faults, lock, conns, ticks, daemon, pipes>>

\* the state of the IPC and daemon harness, and the pipes the daemon holds
ipcvars == <<lock, conns, ticks, daemon, pipes>>

----------------------------------------------------------------------------
(* Bounds of the model *)

MaxRestarts == 3
MaxChildren == 2
MaxIds == 4
MaxFaults == 1
\* request frames a connection sends
MaxFrames == 2
\* interval deadlines that can be due at once
MaxTicks == 1
\* lines a pipe holds before the child that writes to it blocks
MaxLines == 2
\* the time that passes at once between two manager calls, in units of 500 ms
AdvanceUnits == 9

(* Program constants *)

\* tokio::time::sleep(Duration::from_millis(500)) in restart, in units of 500 ms
SleepUnits == 1
\* Duration::from_secs(5) in should_restart, in units of 500 ms
CooldownUnits == 10
\* get_process_usage_unix: memory_pages * 4096
PageSize == 4096

\* Option::None of pid, child, last_restart and max_memory
NoPid == 0
NoChild == 0
NoInstant == -1
NoLimit == -1

\* ProcessConfig values the clients send (max_memory in MiB)
CfgA == [name |-> "a", autorestart |-> TRUE, max_memory |-> 1]
CfgA2 == [name |-> "a", autorestart |-> FALSE, max_memory |-> NoLimit]
CfgB == [name |-> "b", autorestart |-> TRUE, max_memory |-> NoLimit]
CfgB2 == [name |-> "b", autorestart |-> FALSE, max_memory |-> NoLimit]
\* the requests of a run are about one name, or about two
OneName == {CfgA, CfgA2}
TwoNames == {CfgA2, CfgB}
NamesOf(configs) == {c.name : c \in configs}

\* what get_process_usage can report for a running child, in bytes:
\* exactly 1 MiB, one page above 1 MiB, and 2 MiB
MemSamples == {256 * PageSize, 257 * PageSize, 512 * PageSize}
\* the sample that could not be read
SampleFail == -1

\* processes.json before the first save
NoFile == [exists |-> FALSE, content |-> <<>>]

----------------------------------------------------------------------------
(* Helpers on maps and sequences *)

\* an insert that keeps the value a key already has
Insert_keep(m, k, v) == [x \in (DOMAIN m) \cup {k} |-> IF x \in DOMAIN m THEN m[x] ELSE v]

Insert(m, k, v) == [x \in (DOMAIN m) \cup {k} |-> IF x = k THEN v ELSE m[x]]

Remove(m, k) == [x \in (DOMAIN m) \ {k} |-> m[x]]

EmptyMap == [x \in {} |-> 0]

Range(s) == {s[i] : i \in DOMAIN s}

Count(x, s) == Cardinality({i \in DOMAIN s : s[i] = x})

\* the orders in which a HashMap with key set S may be iterated
Orders(S) == {s \in [1..Cardinality(S) -> S] : \A i, j \in DOMAIN s : i # j => s[i] # s[j]}

----------------------------------------------------------------------------
(* ManagedProcess *)

\* a reading of Utc::now() made for the entry object `id`: reading 0 when the
\* object is built, reading r + 1 in the start() it runs with r restarts
\* counted (the object runs start() once as built and once in each restart).
\* Two readings are equal only if they are the same reading.
Now(id, k) == <<id, k>>

ManagedProcess_new(config, id) ==
    [id |-> id, name |-> config.name, status |-> "Stopped", pid |-> NoPid,
     memory_usage |-> 0, started_at |-> Now(id, 0), restarts |-> 0, config |-> config,
     child |-> NoChild, last_restart |-> NoInstant, log_buffer |-> <<>>]

\* a start() that reports Ok when cmd.spawn() failed
start_failure_unreported(p, spawn_ok, c) ==
    IF p.status = "Running"
    THEN [p |-> p, res |-> "Ok", tried |-> FALSE, spawned |-> FALSE]
    ELSE IF spawn_ok
         THEN [p |-> [p EXCEPT !.pid = c, !.status = "Running",
                               !.started_at = Now(p.id, p.restarts + 1), !.child = c],
               res |-> "Ok", tried |-> TRUE, spawned |-> TRUE]
         ELSE [p |-> [p EXCEPT !.status = "Errored"],
               res |-> "Ok", tried |-> TRUE, spawned |-> FALSE]

\* start(): spawn_ok is the outcome of cmd.spawn(), c the child it yields;
\* tried tells whether spawn() was called, spawned whether it yielded c
start(p, spawn_ok, c) ==
    IF p.status = "Running"
    THEN [p |-> p, res |-> "Ok", tried |-> FALSE, spawned |-> FALSE]
    ELSE IF spawn_ok
         THEN [p |-> [p EXCEPT !.pid = c, !.status = "Running",
                               !.started_at = Now(p.id, p.restarts + 1), !.child = c],
               res |-> "Ok", tried |-> TRUE, spawned |-> TRUE]
         ELSE [p |-> [p EXCEPT !.status = "Errored"],
               res |-> "ProcessError", tried |-> TRUE, spawned |-> FALSE]

\* stop(): kill_ok is the outcome of child.kill() (cfg(windows)); on unix the
\* result of libc::kill is ignored.  reaped is the child wait() has reaped.
stop(p, kill_ok) ==
    IF p.child # NoChild
    THEN IF platform = "windows" /\ ~kill_ok
         THEN [p |-> [p EXCEPT !.child = NoChild], res |-> "ProcessError", reaped |-> NoChild]
         ELSE [p |-> [p EXCEPT !.child = NoChild, !.status = "Stopped", !.pid = NoPid],
               res |-> "Ok", reaped |-> p.child]
    ELSE [p |-> p, res |-> "Ok", reaped |-> NoChild]

\* restart(): stop, sleep, count, record the instant, start
restart(p, kill_ok, spawn_ok, c) ==
    LET s == stop(p, kill_ok) IN
    IF s.res # "Ok"
    THEN [p |-> s.p, res |-> s.res, reaped |-> NoChild, tried |-> FALSE,
          spawned |-> FALSE, slept |-> FALSE]
    ELSE LET q == [s.p EXCEPT !.restarts = @ + 1, !.last_restart = 0]
             r == start(q, spawn_ok, c)
         IN [p |-> r.p, res |-> r.res, reaped |-> s.reaped, tried |-> r.tried,
             spawned |-> r.spawned, slept |-> TRUE]

\* update_resource_usage(): usage is what get_process_usage reports
update_resource_usage(p, usage) ==
    IF p.pid # NoPid
    THEN IF usage # SampleFail
         THEN [p EXCEPT !.memory_usage = usage]
         ELSE IF platform = "windows" THEN [p EXCEPT !.memory_usage = 0] ELSE p
    ELSE p

\* check_status(): wait is the outcome of child.try_wait()
check_status(p, wait, usage) ==
    IF p.child = NoChild THEN p
    ELSE CASE wait = "exited_ok" ->
                [p EXCEPT !.status = "Stopped", !.pid = NoPid, !.child = NoChild]
           [] wait = "exited_err" ->
                [p EXCEPT !.status = "Errored", !.pid = NoPid, !.child = NoChild]
           [] wait = "running" -> update_resource_usage(p, usage)
           [] OTHER -> [p EXCEPT !.status = "Errored", !.child = NoChild]

\* should_restart() without its cool-down test
should_restart_no_cooldown(p) ==
    p.config.autorestart /\ p.status \in {"Errored", "Stopped"}

\* should_restart() without its autorestart test
should_restart_any(p) ==
    /\ p.status \in {"Errored", "Stopped"}
    /\ p.last_restart = NoInstant \/ p.last_restart >= CooldownUnits

should_restart(p) ==
    IF ~p.config.autorestart THEN FALSE
    ELSE IF p.status # "Errored" /\ p.status # "Stopped" THEN FALSE
    ELSE IF p.last_restart # NoInstant /\ p.last_restart < CooldownUnits THEN FALSE
    ELSE TRUE

\* 1 MiB in bytes: memory_usage / 1024 / 1024
MiB == 1024 * 1024

\* a memory cap check that compares bytes, without the division
over_memory_bytes(p) ==
    /\ p.config.max_memory # NoLimit
    /\ p.memory_usage > p.config.max_memory * MiB

\* the memory cap check of monitor_processes
over_memory(p) ==
    /\ p.config.max_memory # NoLimit
    /\ (p.memory_usage \div 1024) \div 1024 > p.config.max_memory

----------------------------------------------------------------------------
(* Config: the persisted roster *)

\* serde_json::to_string_pretty of one ProcessConfig: a JSON object whose
\* max_memory is null for None and the number for Some
to_json(config) ==
    [name |-> config.name, autorestart |-> config.autorestart,
     max_memory |-> IF config.max_memory = NoLimit THEN <<>> ELSE <<config.max_memory>>]

\* serde_json::from_str of one object into a ProcessConfig
from_json(value) ==
    [name |-> value.name, autorestart |-> value.autorestart,
     max_memory |-> IF value.max_memory = <<>> THEN NoLimit ELSE value.max_memory[1]]

\* the ProcessConfigs processes.json parses to, as a set
Persisted(f) == {from_json(f.content[i]) : i \in DOMAIN f.content}

\* a save that leaves processes.json as it was
save_processes_kept(procs, wr_ok, order) == file

\* save_processes(): order is the iteration order of processes.values()
save_processes(procs, wr_ok, order) ==
    IF wr_ok
    THEN [exists |-> TRUE,
          content |-> [i \in 1..Len(order) |-> to_json(procs[order[i]].config)]]
    ELSE file

\* a load that keeps only the first persisted config
load_processes_head(content, ids) ==
    [n \in {from_json(content[i]).name : i \in DOMAIN content \cap {1}} |->
        ManagedProcess_new(from_json(content[1]), ids[1])]

\* load_processes(): one fresh ManagedProcess per persisted config, keyed by its name
load_processes(content, ids) ==
    LET configs == [i \in DOMAIN content |-> from_json(content[i])]
        names == {configs[i].name : i \in DOMAIN configs}
        lastIdx(n) == CHOOSE i \in DOMAIN configs :
                         /\ configs[i].name = n
                         /\ \A j \in DOMAIN configs : configs[j].name = n => j <= i
    IN [n \in names |-> ManagedProcess_new(configs[lastIdx(n)], ids[lastIdx(n)])]

----------------------------------------------------------------------------
(* The operating system and the environment's choices *)

Spawn(o, c) == [x \in (DOMAIN o) \cup {c} |-> IF x = c THEN "alive" ELSE o[x]]

\* wait() returns: the child is gone from the process table
Reap(o, c) == IF c = NoChild THEN o ELSE [x \in (DOMAIN o) \ {c} |-> o[x]]

\* a handle is dropped without wait(): a child that is alive stays so, and
\* one that has exited is reaped by the runtime
Drop(o, c) ==
    IF c = NoChild \/ c \notin DOMAIN o THEN o
    ELSE IF o[c] = "alive" THEN o ELSE Reap(o, c)

DropAll(o, cs) == [x \in {c \in DOMAIN o : c \notin cs \/ o[c] = "alive"} |-> o[x]]

Least(S) == CHOOSE x \in S : \A y \in S : x <= y

\* the child cmd.spawn() yields: a number not in the process table and not
\* one the entry has just held, or NoChild when the table is full
NewChild(avoid) ==
    LET free == {c \in 1..MaxChildren : c \notin DOMAIN os /\ c \notin avoid}
    IN IF free = {} THEN NoChild ELSE Least(free)

\* the ids Uuid::new_v4() can yield: those of no entry of the roster
FreeIds == {i \in 1..MaxIds : \A n \in DOMAIN processes : processes[n].id # i}

\* the k-th of them
NthFreeId(k) == CHOOSE i \in FreeIds : Cardinality({j \in FreeIds : j < i}) = k - 1

Handles(procs) == {procs[n].child : n \in DOMAIN procs} \ {NoChild}

\* d units of time pass: every recorded Instant is d older
Elapse(procs, d) ==
    [n \in DOMAIN procs |->
        IF procs[n].last_restart = NoInstant THEN procs[n]
        ELSE [procs[n] EXCEPT !.last_restart =
                 IF @ + d < CooldownUnits THEN @ + d ELSE CooldownUnits]]

\* the outcomes child.kill() can have for this entry
KillOutcomes(p) == IF platform = "windows" /\ p.child # NoChild THEN BOOLEAN ELSE {TRUE}

KillOutcomesOf(name) ==
    IF name \in DOMAIN processes THEN KillOutcomes(processes[name]) ELSE {TRUE}

\* the outcomes child.try_wait() can have for this entry
WaitOutcomes(p) ==
    IF p.child = NoChild THEN {"none"}
    ELSE IF p.child \notin DOMAIN os THEN {"error"}
    ELSE CASE os[p.child] = "alive" -> {"running", "error"}
           [] os[p.child] = "exit_ok" -> {"exited_ok", "error"}
           [] OTHER -> {"exited_err", "error"}

\* what get_process_usage can report once try_wait has returned `wait`
UsageOutcomes(p, wait, samples) ==
    IF wait = "running" /\ p.pid # NoPid THEN samples \cup {SampleFail} ELSE {SampleFail}

Fault(ok) == IF ok THEN 0 ELSE 1

\* k more environment failures happen in this step
Failures(k) == faults + k <= MaxFaults /\ faults' = faults + k

\* value is the Vec<String> the call returned, if it returns one
Result(op, result) == [op |-> op, result |-> result, value |-> <<>>]

NoResult == Result("none", "Ok")

MonIdle == [pc |-> "idle", todo |-> {}, to_restart |-> <<>>, idx |-> 1,
            due |-> {}, warned |-> {}, seen |-> EmptyMap]

\* no task holds the manager Mutex: no monitor pass is running and no request is being handled
NoHolder == 0

\* a Mutex that lets every task in
LockFree_open == TRUE

LockFree == mon.pc = "idle" /\ lock = NoHolder

\* the monitor at the entry of monitor_processes: the first loop has the whole roster to visit
PassStart == [MonIdle EXCEPT !.pc = IF DOMAIN processes = {} THEN "restart" ELSE "check",
                             !.todo = DOMAIN processes]

\* handle_request holds the manager lock for the whole request
Serve == LockFree /\ UNCHANGED <<mon, ipcvars>>

----------------------------------------------------------------------------
(* ProcessManager: the calls, made while the caller holds the manager lock. *)
(* An outcome that the call does not get to consult is fixed to success.    *)

\* the ProcessInfo of an entry
ProcessInfo(p) ==
    [id |-> p.id, name |-> p.name, status |-> p.status, pid |-> p.pid,
     memory_usage |-> p.memory_usage, started_at |-> p.started_at,
     restarts |-> p.restarts, config |-> p.config]

\* list_processes(): the ProcessInfo of every entry of the roster
list_processes(procs) == {ProcessInfo(procs[n]) : n \in DOMAIN procs}

\* save_state(): rewrite processes.json from the roster
save_state(procs, wr_ok, order) == save_processes(procs, wr_ok, order)

\* a caller that swallows the failure of save_state
SaveResult_swallowed(wr_ok) == "Ok"

\* what a mutating call returns once its own work is done: the result of save_state()
SaveResult(wr_ok) == IF wr_ok THEN "Ok" ELSE "ConfigError"

start_process(config, spawn_ok, wr_ok) ==
    /\ FreeIds # {}
    /\ spawn_ok => NewChild({}) # NoChild
    /\ ~spawn_ok => wr_ok
    /\ Failures(Fault(spawn_ok) + Fault(wr_ok))
    /\ LET r == start(ManagedProcess_new(config, NthFreeId(1)), spawn_ok, NewChild({}))
           old == IF config.name \in DOMAIN processes
                  THEN processes[config.name].child ELSE NoChild
       IN IF r.res # "Ok"
          THEN /\ last' = Result("start_process", r.res)
               /\ UNCHANGED <<processes, file, os>>
          ELSE /\ processes' = Insert(processes, config.name, r.p)
               /\ os' = Spawn(Drop(os, old), r.p.child)
               /\ \E order \in Orders(DOMAIN processes') :
                     file' = save_state(processes', wr_ok, order)
               /\ last' = Result("start_process", SaveResult(wr_ok))
    /\ UNCHANGED platform

stop_process(name, kill_ok, wr_ok) ==
    /\ IF name \in DOMAIN processes
       THEN LET s == stop(processes[name], kill_ok) IN
            /\ s.res # "Ok" => wr_ok
            /\ Failures(Fault(kill_ok) + Fault(wr_ok))
            /\ processes' = [processes EXCEPT ![name] = s.p]
            /\ os' = IF s.res = "Ok" THEN Reap(os, s.reaped)
                     ELSE Drop(os, processes[name].child)
            /\ IF s.res = "Ok"
               THEN /\ \E order \in Orders(DOMAIN processes') :
                          file' = save_state(processes', wr_ok, order)
                    /\ last' = Result("stop_process", SaveResult(wr_ok))
               ELSE /\ file' = file
                    /\ last' = Result("stop_process", s.res)
       ELSE /\ kill_ok /\ wr_ok
            /\ last' = Result("stop_process", "ProcessNotFound")
            /\ UNCHANGED <<processes, file, os, faults>>
    /\ UNCHANGED platform

restart_process(name, kill_ok, spawn_ok, wr_ok) ==
    /\ IF name \in DOMAIN processes
       THEN /\ processes[name].restarts < MaxRestarts
            /\ LET c == NewChild({processes[name].child, processes[name].pid})
                   r == restart(processes[name], kill_ok, spawn_ok, c)
                   o == IF r.slept THEN Reap(os, r.reaped)
                        ELSE Drop(os, processes[name].child)
                   slept == IF r.slept THEN Elapse(processes, SleepUnits) ELSE processes
               IN /\ ~r.tried => spawn_ok
                  /\ r.spawned => c # NoChild
                  /\ r.res # "Ok" => wr_ok
                  /\ Failures(Fault(kill_ok) + Fault(spawn_ok) + Fault(wr_ok))
                  /\ processes' = [slept EXCEPT ![name] = r.p]
                  /\ os' = IF r.spawned THEN Spawn(o, c) ELSE o
                  /\ IF r.res = "Ok"
                     THEN /\ \E order \in Orders(DOMAIN processes') :
                                file' = save_state(processes', wr_ok, order)
                          /\ last' = Result("restart_process", SaveResult(wr_ok))
                     ELSE /\ file' = file
                          /\ last' = Result("restart_process", r.res)
       ELSE /\ kill_ok /\ spawn_ok /\ wr_ok
            /\ last' = Result("restart_process", "ProcessNotFound")
            /\ UNCHANGED <<processes, file, os, faults>>
    /\ UNCHANGED platform

delete_process(name, kill_ok, wr_ok) ==
    /\ IF name \in DOMAIN processes
       THEN LET s == stop(processes[name], kill_ok) IN
            /\ s.res # "Ok" => wr_ok
            /\ Failures(Fault(kill_ok) + Fault(wr_ok))
            /\ processes' = Remove(processes, name)
            /\ os' = IF s.res = "Ok" THEN Reap(os, s.reaped)
                     ELSE Drop(os, processes[name].child)
            /\ IF s.res = "Ok"
               THEN /\ \E order \in Orders(DOMAIN processes') :
                          file' = save_state(processes', wr_ok, order)
                    /\ last' = Result("delete_process", SaveResult(wr_ok))
               ELSE /\ file' = file
                    /\ last' = Result("delete_process", s.res)
       ELSE /\ kill_ok /\ wr_ok
            /\ last' = Result("delete_process", "ProcessNotFound")
            /\ UNCHANGED <<processes, file, os, faults>>
    /\ UNCHANGED platform

\* load_state(): rd_ok is the outcome of reading and parsing processes.json;
\* the entries of the roster it replaces are dropped
load_state(rd_ok) ==
    /\ IF ~file.exists
       THEN /\ rd_ok
            /\ processes' = EmptyMap
            /\ os' = DropAll(os, Handles(processes))
            /\ UNCHANGED faults
       ELSE IF rd_ok
            THEN /\ Len(file.content) <= Cardinality(FreeIds)
                 /\ processes' = load_processes(file.content,
                                     [i \in DOMAIN file.content |-> NthFreeId(i)])
                 /\ os' = DropAll(os, Handles(processes))
                 /\ UNCHANGED faults
            ELSE /\ Failures(1)
                 /\ UNCHANGED <<processes, os>>
    /\ last' = Result("load_state", "Ok")
    /\ UNCHANGED <<file, platform>>

----------------------------------------------------------------------------
(* handle_request: one IPC request, served under the manager lock *)

StartProcess(config) ==
    /\ Serve
    /\ \E spawn_ok \in BOOLEAN, wr_ok \in BOOLEAN :
          start_process(config, spawn_ok, wr_ok)

StopProcess(name) ==
    /\ Serve
    /\ \E kill_ok \in KillOutcomesOf(name), wr_ok \in BOOLEAN :
          stop_process(name, kill_ok, wr_ok)

\* the RestartProcess and the ReloadProcess request: both call restart_process
RestartProcess(name) ==
    /\ Serve
    /\ \E kill_ok \in KillOutcomesOf(name), spawn_ok \in BOOLEAN, wr_ok \in BOOLEAN :
          restart_process(name, kill_ok, spawn_ok, wr_ok)

DeleteProcess(name) ==
    /\ Serve
    /\ \E kill_ok \in KillOutcomesOf(name), wr_ok \in BOOLEAN :
          delete_process(name, kill_ok, wr_ok)

ResurrectProcesses ==
    /\ Serve
    /\ \E rd_ok \in BOOLEAN : load_state(rd_ok)

----------------------------------------------------------------------------
(* monitor_processes, run by the monitor task of DaemonManager::run *)

\* a tick whose try_lock succeeded: the pass starts
monitor_begin ==
    /\ LockFree
    /\ mon' = PassStart
    /\ last' = NoResult
    /\ UNCHANGED <<processes, file, os, platform, faults, ipcvars>>

\* one iteration of the first loop: check_status, should_restart, memory cap
monitor_check(name, samples) ==
    /\ mon.pc = "check"
    /\ name \in mon.todo
    /\ \E wait \in WaitOutcomes(processes[name]) :
       \E usage \in UsageOutcomes(processes[name], wait, samples) :
          LET p1 == check_status(processes[name], wait, usage)
              sr == should_restart(p1)
              om == over_memory(p1)
              q1 == IF sr THEN Append(mon.to_restart, name) ELSE mon.to_restart
              q2 == IF om THEN Append(q1, name) ELSE q1
          IN /\ Failures(Fault(wait # "error")
                          + Fault(~(wait = "running" /\ usage = SampleFail)))
             /\ processes' = [processes EXCEPT ![name] = p1]
             /\ os' = IF wait \in {"exited_ok", "exited_err"}
                      THEN Reap(os, processes[name].child)
                      ELSE IF wait = "error" THEN Drop(os, processes[name].child)
                      ELSE os
             /\ mon' = [pc |-> IF mon.todo \ {name} = {} THEN "restart" ELSE "check",
                        todo |-> mon.todo \ {name},
                        to_restart |-> q2,
                        idx |-> 1,
                        due |-> IF sr THEN mon.due \cup {name} ELSE mon.due,
                        warned |-> IF om THEN mon.warned \cup {name} ELSE mon.warned,
                        seen |-> Insert(mon.seen, name,
                                        [wait |-> wait, restarts |-> p1.restarts])]
    /\ last' = Result("check_status", "Ok")
    /\ UNCHANGED <<file, platform, ipcvars>>

\* one iteration of the second loop: restart_process of the next queued name
monitor_restart ==
    /\ mon.pc = "restart"
    /\ mon.idx <= Len(mon.to_restart)
    /\ LET name == mon.to_restart[mon.idx] IN
       \E kill_ok \in KillOutcomesOf(name), spawn_ok \in BOOLEAN, wr_ok \in BOOLEAN :
          restart_process(name, kill_ok, spawn_ok, wr_ok)
    /\ mon' = [mon EXCEPT !.idx = @ + 1]
    /\ UNCHANGED ipcvars

\* a pass that returns wherever it is
monitor_end_early ==
    /\ mon.pc # "idle"
    /\ mon' = MonIdle
    /\ last' = Result("monitor_processes", "Ok")
    /\ UNCHANGED <<processes, file, os, platform, faults, ipcvars>>

\* the pass returns Ok(()) and the lock is released
monitor_end ==
    /\ mon.pc = "restart"
    /\ mon.idx > Len(mon.to_restart)
    /\ mon' = MonIdle
    /\ last' = Result("monitor_processes", "Ok")
    /\ UNCHANGED <<processes, file, os, platform, faults, ipcvars>>

----------------------------------------------------------------------------
(* The environment *)

\* a running child exits by itself or is killed from outside; one whose
\* handle was dropped is reaped by the runtime at once
child_exit(c, ok) ==
    /\ c \in DOMAIN os
    /\ os[c] = "alive"
    /\ os' = IF c \in Handles(processes)
             THEN [os EXCEPT ![c] = IF ok THEN "exit_ok" ELSE "exit_err"]
             ELSE Reap(os, c)
    /\ last' = NoResult
    /\ UNCHANGED <<processes, file, platform, mon, faults, ipcvars>>

\* time passes while no manager call is running
Advance ==
    /\ LockFree
    /\ processes' = Elapse(processes, AdvanceUnits)
    /\ last' = NoResult
    /\ UNCHANGED <<file, os, platform, mon, faults, ipcvars>>

----------------------------------------------------------------------------
(* The IPC server and the daemon harness, connection by connection *)

Conns == {1, 2}

Up == daemon = "running"

\* the requests that name an entry, and those that carry nothing
NameKinds == {"StopProcess", "RestartProcess", "DeleteProcess", "GetProcessInfo",
              "GetLogs", "ReloadProcess"}
PlainKinds == {"ListProcesses", "Monitor", "KillDaemon", "SaveProcesses",
               "ResurrectProcesses"}

NoName == "-"
NoConfig == [name |-> NoName, autorestart |-> FALSE, max_memory |-> NoLimit]

\* an IpcRequest
Request(kind, name, config) == [kind |-> kind, name |-> name, config |-> config]

NoRequest == Request("none", NoName, NoConfig)

\* the requests a client can send about one config
RequestsAbout(config) ==
    {Request("StartProcess", config.name, config)}
    \cup {Request(k, config.name, NoConfig) : k \in NameKinds}
    \cup {Request(k, NoName, NoConfig) : k \in PlainKinds}

\* the lines argument of GetLogs
LogLines == {0, 1}

\* a connection: pc is its place in the loop of handle_unix_connection /
\* handle_tcp_connection, n the number of request frames read, out the
\* response frames written, each with the number of the request it answers
ConnInit == [pc |-> "read", req |-> NoRequest, resp |-> "none", n |-> 0, out |-> <<>>]

\* a handler that answers Success whatever the request returns
Response_plain(req, result) == IF result # "Ok" THEN "Error" ELSE "Success"

\* the IpcResponse handle_request builds from the result of the manager call
Response(req, result) ==
    IF result # "Ok" THEN "Error"
    ELSE CASE req.kind = "ListProcesses" -> "ProcessList"
           [] req.kind = "GetProcessInfo" -> "ProcessInfo"
           [] req.kind = "GetLogs" -> "Logs"
           [] OTHER -> "Success"

\* a get_process_info that finds every name
get_process_info_any(name) ==
    /\ last' = Result("get_process_info", "Ok")
    /\ UNCHANGED <<processes, file, os, platform, faults>>

get_process_info(name) ==
    /\ last' = Result("get_process_info",
                      IF name \in DOMAIN processes THEN "Ok" ELSE "ProcessNotFound")
    /\ UNCHANGED <<processes, file, os, platform, faults>>

\* the first `lines` lines of a log buffer
LogTail_head(log_buffer, lines) ==
    SubSeq(log_buffer, 1, IF Len(log_buffer) > lines THEN lines ELSE Len(log_buffer))

\* the last `lines` lines of a log buffer
LogTail(log_buffer, lines) ==
    LET log_count == Len(log_buffer)
        first == IF log_count > lines THEN log_count - lines ELSE 0
    IN SubSeq(log_buffer, first + 1, log_count)

get_logs(name, lines) ==
    /\ last' = IF name \in DOMAIN processes
               THEN [Result("get_logs", "Ok") EXCEPT
                        !.value = LogTail(processes[name].log_buffer, lines)]
               ELSE Result("get_logs", "ProcessNotFound")
    /\ UNCHANGED <<processes, file, os, platform, faults>>

\* the arms of handle_request that call nothing, or only read the roster
answer(op) ==
    /\ last' = Result(op, "Ok")
    /\ UNCHANGED <<processes, file, os, platform, faults>>

\* read_line yields a frame and it parses as req; the client sends `frames` frames
conn_read(c, req, frames) ==
    /\ Up
    /\ conns[c].pc = "read"
    /\ conns[c].n < frames
    /\ conns' = [conns EXCEPT ![c] = [@ EXCEPT !.pc = "lock", !.req = req,
                                               !.resp = "none", !.n = @ + 1]]
    /\ last' = NoResult
    /\ UNCHANGED <<processes, file, os, platform, mon, faults, lock, ticks, daemon, pipes>>

\* read_line yields end of input, or a frame that does not parse: the loop ends
conn_close(c) ==
    /\ Up
    /\ conns[c].pc = "read"
    /\ conns' = [conns EXCEPT ![c].pc = "closed"]
    /\ last' = NoResult
    /\ UNCHANGED <<processes, file, os, platform, mon, faults, lock, ticks, daemon, pipes>>

\* handle_request: process_manager.lock().await returns
conn_lock(c) ==
    /\ Up
    /\ conns[c].pc = "lock"
    /\ LockFree
    /\ lock' = c
    /\ conns' = [conns EXCEPT ![c].pc = "handle"]
    /\ last' = NoResult
    /\ UNCHANGED <<processes, file, os, platform, mon, faults, ticks, daemon, pipes>>

\* handle_request: the match on the request, under the lock, up to the return
\* that drops the guard
handle_request(c) ==
    /\ Up
    /\ conns[c].pc = "handle"
    /\ LET req == conns[c].req IN
       /\ \/ /\ req.kind = "StartProcess"
             /\ \E spawn_ok \in BOOLEAN, wr_ok \in BOOLEAN :
                   start_process(req.config, spawn_ok, wr_ok)
          \/ /\ req.kind = "StopProcess"
             /\ \E kill_ok \in KillOutcomesOf(req.name), wr_ok \in BOOLEAN :
                   stop_process(req.name, kill_ok, wr_ok)
          \/ /\ req.kind \in {"RestartProcess", "ReloadProcess"}
             /\ \E kill_ok \in KillOutcomesOf(req.name), spawn_ok \in BOOLEAN,
                   wr_ok \in BOOLEAN :
                   restart_process(req.name, kill_ok, spawn_ok, wr_ok)
          \/ /\ req.kind = "DeleteProcess"
             /\ \E kill_ok \in KillOutcomesOf(req.name), wr_ok \in BOOLEAN :
                   delete_process(req.name, kill_ok, wr_ok)
          \/ /\ req.kind = "ListProcesses"
             /\ answer("list_processes")
          \/ /\ req.kind = "GetProcessInfo"
             /\ get_process_info(req.name)
          \/ /\ req.kind = "GetLogs"
             /\ \E lines \in LogLines : get_logs(req.name, lines)
          \/ /\ req.kind \in {"Monitor", "KillDaemon", "SaveProcesses"}
             /\ answer(req.kind)
          \/ /\ req.kind = "ResurrectProcesses"
             /\ \E rd_ok \in BOOLEAN : load_state(rd_ok)
       /\ conns' = [conns EXCEPT ![c] = [@ EXCEPT !.pc = "write",
                                                  !.resp = Response(req, last'.result)]]
    /\ lock' = NoHolder
    /\ UNCHANGED <<mon, ticks, daemon, pipes>>

\* a connection that goes back to reading without writing a response
Respond_none(conn) == [conn EXCEPT !.pc = "read", !.req = NoRequest, !.resp = "none"]

Frame(of, resp) == [of |-> of, resp |-> resp]

\* the response frame a connection writes for the request in hand, and line.clear()
Respond(conn) == [conn EXCEPT !.pc = "read", !.out = Append(@, Frame(conn.n, conn.resp)),
                              !.req = NoRequest, !.resp = "none"]

\* writer.write_all of the response and of the newline
conn_write(c) ==
    /\ Up
    /\ conns[c].pc = "write"
    /\ conns' = [conns EXCEPT ![c] = Respond(conns[c])]
    /\ last' = NoResult
    /\ UNCHANGED <<processes, file, os, platform, mon, faults, lock, ticks, daemon, pipes>>

\* a deadline of the monitor's interval is reached
interval_elapsed ==
    /\ Up
    /\ ticks < MaxTicks
    /\ ticks' = ticks + 1
    /\ last' = NoResult
    /\ UNCHANGED <<processes, file, os, platform, mon, faults, lock, conns, daemon, pipes>>

\* a try_lock that succeeds whoever holds the Mutex
try_lock_blind(holder) == TRUE

\* pm_clone.try_lock()
try_lock(holder) == holder = NoHolder

\* one turn of the monitor task's loop: interval.tick() returns, then the pass
\* starts if try_lock succeeds and the turn is over if it does not
monitor_tick ==
    /\ Up
    /\ mon.pc = "idle"
    /\ ticks > 0
    /\ ticks' = ticks - 1
    /\ IF try_lock(lock)
       THEN /\ mon' = PassStart
            /\ last' = NoResult
       ELSE /\ mon' = mon
            /\ last' = Result("try_lock", "WouldBlock")
    /\ UNCHANGED <<processes, file, os, platform, faults, lock, conns, daemon, pipes>>

\* a shutdown that takes the supervised children down with the daemon
shutdown_stopping ==
    /\ Up
    /\ daemon' = "down"
    /\ os' = EmptyMap
    /\ last' = NoResult
    /\ UNCHANGED <<processes, file, platform, mon, faults, lock, conns, ticks, pipes>>

\* the select! of DaemonManager::run completes, on the interrupt signal or on
\* the end of the monitor task or of the IPC task: run returns, the runtime is
\* dropped and the tasks of the daemon run no more.  The child handles are
\* dropped with them, which signals no child.
shutdown ==
    /\ Up
    /\ daemon' = "down"
    /\ last' = NoResult
    /\ UNCHANGED <<processes, file, os, platform, mon, faults, lock, conns, ticks, pipes>>

----------------------------------------------------------------------------

Init ==
    /\ processes = EmptyMap
    /\ file = NoFile
    /\ os = EmptyMap
    /\ platform \in {"unix", "windows"}
    /\ mon = MonIdle
    /\ last = NoResult
    /\ faults = 0
    /\ lock = NoHolder
    /\ conns = [c \in Conns |-> ConnInit]
    /\ ticks = 0
    /\ daemon = "running"
    /\ pipes = [c \in 1..MaxChildren |-> 0]

\* the steps of a run whose requests carry these configs and whose children
\* show these memory samples
NextOver(configs, samples) ==
    \/ \E config \in configs : StartProcess(config)
    \/ \E name \in NamesOf(configs) : StopProcess(name)
    \/ \E name \in NamesOf(configs) : RestartProcess(name)
    \/ \E name \in NamesOf(configs) : DeleteProcess(name)
    \/ ResurrectProcesses
    \/ monitor_begin
    \/ \E name \in NamesOf(configs) : monitor_check(name, samples)
    \/ monitor_restart
    \/ monitor_end
    \/ \E c \in 1..MaxChildren, ok \in BOOLEAN : child_exit(c, ok)
    \/ Advance

Next == NextOver(OneName, MemSamples)

Spec == Init /\ [][Next]_vars

\* a name no client ever starts
Absent == "c"

\* the connections that send something
Active(requests) == {c \in Conns : requests[c] # {}}

\* the names the requests can put in the roster
Started(requests) ==
    {req.name : req \in {r \in UNION {requests[c] : c \in Conns} : r.kind = "StartProcess"}}

\* the steps of the daemon seen connection by connection, requests[c] being
\* what the client of connection c can send, in `frames` frames at most.  No
\* config sent has autorestart or max_memory and no entry of the roster is
\* ever restarted, so the second
\* loop of monitor_processes has nothing to do and no Instant is recorded for
\* time to act upon.
NextIpcOver(requests, frames) ==
    \/ \E c \in Active(requests) : \E req \in requests[c] : conn_read(c, req, frames)
    \/ \E c \in Active(requests) : conn_close(c)
    \/ \E c \in Active(requests) : conn_lock(c)
    \/ \E c \in Active(requests) : handle_request(c)
    \/ \E c \in Active(requests) : conn_write(c)
    \/ interval_elapsed
    \/ monitor_tick
    \/ \E name \in Started(requests) : Up /\ monitor_check(name, {0})
    \/ Up /\ monitor_end
    \/ \E c \in 1..MaxChildren, ok \in BOOLEAN : Up /\ child_exit(c, ok)
    \/ shutdown

\* one client: it starts a, asks about the name that is never there, and
\* sends every request that names no entry
OneClient ==
    [c \in Conns |->
        IF c = 1
        THEN {Request("StartProcess", "a", CfgA2)}
             \cup {Request(k, Absent, NoConfig) : k \in NameKinds}
             \cup {Request(k, NoName, NoConfig) : k \in PlainKinds}
        ELSE {}]

NextIpc == NextIpcOver(OneClient, MaxFrames)

SpecIpc == Init /\ [][NextIpc]_vars

\* the tasks of the daemon get to run: a connection task that can go on does,
\* and so does the monitor task; clients, children and the interrupt signal
\* owe nothing
DaemonStep ==
    \/ \E c \in Conns : conn_lock(c) \/ handle_request(c) \/ conn_write(c)
    \/ monitor_tick
    \/ \E name \in Started(OneClient) : Up /\ monitor_check(name, {0})
    \/ Up /\ monitor_end

FairSpecIpc == SpecIpc /\ WF_vars(DaemonStep)

\* two clients with one request each: the first starts a, the second starts b
TwoClients ==
    [c \in Conns |->
        IF c = 1 THEN {Request("StartProcess", "a", CfgA2)}
        ELSE {Request("StartProcess", "b", CfgB2)}]

NextTwo == NextIpcOver(TwoClients, 1)

SpecTwo == Init /\ [][NextTwo]_vars

\* the daemon is started again: ProcessManager::new() begins with an empty
\* roster; the children of the daemon that went away keep running, unowned
manager_new ==
    /\ LockFree
    /\ processes' = EmptyMap
    /\ os' = DropAll(os, Handles(processes))
    /\ last' = Result("new", "Ok")
    /\ UNCHANGED <<file, platform, mon, faults, ipcvars>>

\* a roster of two names that is saved, and loaded by a fresh manager
NextRound ==
    \/ \E config \in TwoNames : StartProcess(config)
    \/ \E name \in NamesOf(TwoNames) : DeleteProcess(name)
    \/ ResurrectProcesses
    \/ manager_new
    \/ \E c \in 1..MaxChildren, ok \in BOOLEAN : child_exit(c, ok)

SpecRound == Init /\ [][NextRound]_vars

\* ManagedProcess::stop followed await by await, on the build where the child
\* is asked to terminate with SIGTERM.  The request of connection c is a
\* StopProcess for an entry that holds a child.
Stopping(c) ==
    /\ platform = "unix"
    /\ conns[c].req.kind = "StopProcess"
    /\ conns[c].req.name \in DOMAIN processes
    /\ processes[conns[c].req.name].child # NoChild

\* the other requests are handled as one step
handle_whole(c) == ~Stopping(c) /\ handle_request(c)

\* stop(): self.child.take() and libc::kill(pid, SIGTERM), whose result is
\* ignored; the handler then awaits child.wait() with the manager lock held.
\* The child taken is the one info.pid still names.
stop_signal(c) ==
    /\ Up
    /\ conns[c].pc = "handle"
    /\ Stopping(c)
    /\ processes' = [processes EXCEPT ![conns[c].req.name].child = NoChild]
    /\ conns' = [conns EXCEPT ![c].pc = "wait"]
    /\ last' = NoResult
    /\ UNCHANGED <<file, os, platform, mon, faults, lock, ticks, daemon, pipes>>

\* child.wait() can return: the child has exited
Exited(o, c) == ~(c \in DOMAIN o /\ o[c] = "alive")

\* stop(): child.wait() returns, the entry becomes Stopped with no pid;
\* stop_process then saves the state and handle_request returns
stop_wait(c) ==
    /\ Up
    /\ conns[c].pc = "wait"
    /\ LET name == conns[c].req.name
           child == processes[name].pid
       IN /\ Exited(os, child)
          /\ processes' = [processes EXCEPT ![name].status = "Stopped", ![name].pid = NoPid]
          /\ os' = [x \in (DOMAIN os) \ {child} |-> os[x]]
          /\ \E wr_ok \in BOOLEAN :
                /\ Failures(Fault(wr_ok))
                /\ \E order \in Orders(DOMAIN processes') :
                      file' = save_state(processes', wr_ok, order)
                /\ last' = Result("stop_process", SaveResult(wr_ok))
    /\ conns' = [conns EXCEPT ![c] = [@ EXCEPT !.pc = "write",
                                               !.resp = Response(conns[c].req, last'.result)]]
    /\ lock' = NoHolder
    /\ UNCHANGED <<platform, mon, ticks, daemon, pipes>>

\* the child goes on or ends as it pleases, SIGTERM or not: a child whose
\* handle stop() has taken is still a child of the daemon until wait() reaps it
child_ends(c, ok) ==
    /\ c \in DOMAIN os
    /\ os[c] = "alive"
    /\ os' = [os EXCEPT ![c] = IF ok THEN "exit_ok" ELSE "exit_err"]
    /\ last' = NoResult
    /\ UNCHANGED <<processes, file, platform, mon, faults, ipcvars>>

\* one client: it starts a and stops it
StopClient ==
    [c \in Conns |->
        IF c = 1
        THEN {Request("StartProcess", "a", CfgA2), Request("StopProcess", "a", NoConfig)}
        ELSE {}]

\* the steps the daemon takes by itself once a request is read
StopDaemonStep ==
    \E c \in Active(StopClient) :
        conn_lock(c) \/ handle_whole(c) \/ stop_signal(c) \/ stop_wait(c) \/ conn_write(c)

NextStop ==
    \/ \E c \in Active(StopClient) : \E req \in StopClient[c] : conn_read(c, req, MaxFrames + 1)
    \/ \E c \in Active(StopClient) : conn_close(c)
    \/ \E c \in Active(StopClient) : conn_lock(c)
    \/ \E c \in Active(StopClient) : handle_whole(c)
    \/ \E c \in Active(StopClient) : stop_signal(c)
    \/ \E c \in Active(StopClient) : stop_wait(c)
    \/ \E c \in Active(StopClient) : conn_write(c)
    \/ \E c \in 1..MaxChildren, ok \in BOOLEAN : child_ends(c, ok)

SpecStop == Init /\ [][NextStop]_vars

\* the daemon's tasks are scheduled; nothing obliges a child to end
FairSpecStop == SpecStop /\ WF_vars(StopDaemonStep)

\* a running child writes a line to its standard output or standard error,
\* which start() made pipes whose read ends the Child handle holds; a child
\* whose pipe is full blocks
child_writes(c) ==
    /\ c \in DOMAIN os
    /\ os[c] = "alive"
    /\ pipes[c] < MaxLines
    /\ pipes' = [pipes EXCEPT ![c] = @ + 1]
    /\ last' = NoResult
    /\ UNCHANGED <<processes, file, os, platform, mon, faults, lock, conns, ticks, daemon>>

\* one client: it starts a and asks for its logs
LogClient ==
    [c \in Conns |->
        IF c = 1
        THEN {Request("StartProcess", "a", CfgA2), Request("GetLogs", "a", NoConfig)}
        ELSE {}]

\* the steps the daemon takes by itself once a request is read; no task of
\* the daemon reads the pipes of a child
PipesDaemonStep ==
    \E c \in Active(LogClient) : conn_lock(c) \/ handle_request(c) \/ conn_write(c)

NextPipes ==
    \/ \E c \in Active(LogClient) : \E req \in LogClient[c] : conn_read(c, req, MaxFrames)
    \/ \E c \in Active(LogClient) : conn_close(c)
    \/ \E c \in Active(LogClient) : conn_lock(c)
    \/ \E c \in Active(LogClient) : handle_request(c)
    \/ \E c \in Active(LogClient) : conn_write(c)
    \/ \E c \in 1..MaxChildren : child_writes(c)

SpecPipes == Init /\ [][NextPipes]_vars

FairSpecPipes == SpecPipes /\ WF_vars(PipesDaemonStep)

\* get_logs as a function of the log buffer and of the number of lines asked
\* for: the buffers of an entry are drawn among the sequences of two lines
LineValues == {"x", "y"}

Buffers == UNION {[1..k -> LineValues] : k \in 0..(MaxLines + 1)}

InitLogs ==
    /\ \E b \in Buffers :
          processes = [n \in {"a"} |->
                          [ManagedProcess_new(CfgA2, 1) EXCEPT !.log_buffer = b]]
    /\ file = NoFile
    /\ os = EmptyMap
    /\ platform \in {"unix", "windows"}
    /\ mon = MonIdle
    /\ last = NoResult
    /\ faults = 0
    /\ lock = NoHolder
    /\ conns = [c \in Conns |-> ConnInit]
    /\ ticks = 0
    /\ daemon = "running"
    /\ pipes = [c \in 1..MaxChildren |-> 0]

\* the GetLogs request
GetLogs(name, lines) == Serve /\ get_logs(name, lines)

NextLogs == \E name \in {"a", Absent}, lines \in 0..(MaxLines + 2) : GetLogs(name, lines)

SpecLogs == InitLogs /\ [][NextLogs]_vars

\* one client: it sends every request there is about the entry a
AnyClient == [c \in Conns |-> IF c = 1 THEN RequestsAbout(CfgA2) ELSE {}]

NextAnswers ==
    \/ \E c \in Active(AnyClient) : \E req \in AnyClient[c] : conn_read(c, req, MaxFrames + 1)
    \/ \E c \in Active(AnyClient) : conn_close(c)
    \/ \E c \in Active(AnyClient) : conn_lock(c)
    \/ \E c \in Active(AnyClient) : handle_request(c)
    \/ \E c \in Active(AnyClient) : conn_write(c)

SpecAnswers == Init /\ [][NextAnswers]_vars

\* a roster of two entries that both restart by themselves, each started
\* once, and the monitor
PassConfigs == {CfgA, CfgB}

\* a StartProcess request for a name the roster does not hold
StartOnce(config) ==
    /\ config.name \notin DOMAIN processes
    /\ StartProcess(config)

NextPass ==
    \/ \E config \in PassConfigs : StartOnce(config)
    \/ monitor_begin
    \/ \E name \in NamesOf(PassConfigs) : monitor_check(name, {0})
    \/ monitor_restart
    \/ monitor_end
    \/ \E c \in 1..MaxChildren, ok \in BOOLEAN : child_exit(c, ok)

SpecPass == Init /\ [][NextPass]_vars

\* the four mutating requests about one entry, with no monitor
SaveConfigs == {CfgA2}

NextSave ==
    \/ \E config \in SaveConfigs : StartProcess(config)
    \/ \E name \in NamesOf(SaveConfigs) : StopProcess(name)
    \/ \E name \in NamesOf(SaveConfigs) : RestartProcess(name)
    \/ \E name \in NamesOf(SaveConfigs) : DeleteProcess(name)
    \/ \E c \in 1..MaxChildren, ok \in BOOLEAN : child_exit(c, ok)

SpecSave == Init /\ [][NextSave]_vars

\* a quiet period: the failures counted so far are behind, and the
\* environment may fail again
quiet ==
    /\ LockFree
    /\ faults > 0
    /\ faults' = 0
    /\ last' = NoResult
    /\ UNCHANGED <<processes, file, os, platform, mon, ipcvars>>

\* one autorestart entry, started once, that clients restart and the monitor
\* watches, over a run long enough for failures to follow one another
RestartConfigs == {CfgA}

NextRestart ==
    \/ \E config \in RestartConfigs : StartOnce(config)
    \/ \E name \in NamesOf(RestartConfigs) : RestartProcess(name)
    \/ monitor_begin
    \/ \E name \in NamesOf(RestartConfigs) : monitor_check(name, {0})
    \/ monitor_restart
    \/ monitor_end
    \/ \E c \in 1..MaxChildren, ok \in BOOLEAN : child_exit(c, ok)
    \/ Advance
    \/ quiet

SpecRestart == Init /\ [][NextRestart]_vars

\* one autorestart entry with a memory cap, started once and then left to
\* the monitor: every restart is one the monitor makes, and the passes are a
\* whole interval apart
AutoConfigs == {CfgA}

\* tokio::time::interval(Duration::from_secs(5)) of the monitor task, in units of 500 ms
IntervalUnits == 10

\* the monitor task on its nominal schedule: a tick comes a whole interval
\* after the one before, finds the lock free and the pass starts
monitor_interval ==
    /\ LockFree
    /\ processes' = Elapse(processes, IntervalUnits)
    /\ mon' = PassStart
    /\ last' = NoResult
    /\ UNCHANGED <<file, os, platform, faults, ipcvars>>

NextAuto ==
    \/ \E config \in AutoConfigs : StartOnce(config)
    \/ monitor_interval
    \/ \E name \in NamesOf(AutoConfigs) : monitor_check(name, MemSamples)
    \/ monitor_restart
    \/ monitor_end
    \/ \E c \in 1..MaxChildren, ok \in BOOLEAN : child_exit(c, ok)

SpecAuto == Init /\ [][NextAuto]_vars

\* one autorestart entry without a memory cap, started once, stopped and
\* restarted by a client, with the monitor on its schedule. No child exits by
\* itself and every stop_process that reaches save_state has it succeed, so
\* an entry is Stopped only after a stop_process that returned Ok
StayConfigs == {CfgB}

StopSaved(name) ==
    /\ Serve
    /\ \E kill_ok \in KillOutcomesOf(name) : stop_process(name, kill_ok, TRUE)

NextStay ==
    \/ \E config \in StayConfigs : StartOnce(config)
    \/ \E name \in NamesOf(StayConfigs) : StopSaved(name)
    \/ \E name \in NamesOf(StayConfigs) : RestartProcess(name)
    \/ monitor_interval
    \/ \E name \in NamesOf(StayConfigs) : monitor_check(name, {0})
    \/ monitor_restart
    \/ monitor_end

SpecStay == Init /\ [][NextStay]_vars

\* a handler that answers an unparsable frame with an Error frame and reads on
conn_unparsable_answered(c, frames) ==
    /\ Up
    /\ conns[c].pc = "read"
    /\ conns[c].n < frames
    /\ conns' = [conns EXCEPT ![c] = [@ EXCEPT !.n = @ + 1,
                                               !.out = Append(@, Frame(conns[c].n + 1, "Error"))]]
    /\ last' = Result("from_str", "IpcError")
    /\ UNCHANGED <<processes, file, os, platform, mon, faults, lock, ticks, daemon, pipes>>

\* read_line yields a frame and serde_json::from_str fails on it: the `?`
\* returns Err(RpmError::Ipc) from the handler, the task that ran it logs the
\* error and ends, and the stream is dropped
conn_unparsable(c, frames) ==
    /\ Up
    /\ conns[c].pc = "read"
    /\ conns[c].n < frames
    /\ conns' = [conns EXCEPT ![c] = [@ EXCEPT !.pc = "closed", !.n = @ + 1]]
    /\ last' = Result("from_str", "IpcError")
    /\ UNCHANGED <<processes, file, os, platform, mon, faults, lock, ticks, daemon, pipes>>

\* the connection's handler ended on a frame it read and did not answer
ParseFailed(c) == conns[c].pc = "closed" /\ Len(conns[c].out) < conns[c].n

\* two clients whose frames may be malformed, with the monitor task ticking
NextParse ==
    \/ \E c \in Conns : \E req \in TwoClients[c] : conn_read(c, req, MaxFrames)
    \/ \E c \in Conns : conn_unparsable(c, MaxFrames)
    \/ \E c \in Conns : conn_close(c)
    \/ \E c \in Conns : conn_lock(c)
    \/ \E c \in Conns : handle_request(c)
    \/ \E c \in Conns : conn_write(c)
    \/ interval_elapsed
    \/ monitor_tick
    \/ \E name \in Started(TwoClients) : monitor_check(name, {0})
    \/ monitor_end

SpecParse == Init /\ [][NextParse]_vars

----------------------------------------------------------------------------
(* Properties *)

MutatingOps == {"start_process", "stop_process", "restart_process", "delete_process"}

\* the first loop of the running pass has visited n and its second loop has
\* restarted nothing yet
Visited(n) ==
    /\ mon.pc # "idle"
    /\ mon.idx = 1
    /\ n \in DOMAIN mon.seen
    /\ n \in DOMAIN processes

\* the pass has done both loops and is about to return
PassDone == mon.pc = "restart" /\ mon.idx > Len(mon.to_restart)

\* C1: in every reachable state of a roster entry, status is Running if and
\* only if the child handle is present and pid is set.
C1_RunningIffChildAndPid ==
    \A n \in DOMAIN processes :
        (processes[n].status = "Running")
            <=> (processes[n].child # NoChild /\ processes[n].pid # NoPid)

\* C2: whenever the status of an entry is Stopped or Errored, its child handle
\* is absent and its pid is null.
C2_StoppedOrErroredHasNoChild ==
    \A n \in DOMAIN processes :
        processes[n].status \in {"Stopped", "Errored"}
            => (processes[n].child = NoChild /\ processes[n].pid = NoPid)

\* C3: a start_process that succeeds for a name already in the roster has
\* stopped the child of the entry it replaces: that child no longer runs.
C3_ReplacementStopsOldChild ==
    [][\A n \in DOMAIN processes :
          ( /\ last'.op = "start_process"
            /\ last'.result = "Ok"
            /\ n \in DOMAIN processes'
            /\ processes'[n].id # processes[n].id
            /\ processes[n].child # NoChild )
          => ~( /\ processes[n].child \in DOMAIN os'
                /\ os'[processes[n].child] = "alive" )]_vars

\* C4: after any completed ProcessManager operation every spawned child that
\* is still alive is held by the handle of exactly one roster entry.
C4_NoChildLeaked ==
    LockFree =>
        \A c \in DOMAIN os :
            os[c] = "alive"
                => Cardinality({n \in DOMAIN processes : processes[n].child = c}) = 1

\* C5: after a successful start, stop, restart or delete the persisted state
\* has been rewritten and holds exactly the configs of the roster, one per entry.
C5_FileMatchesRoster ==
    (last.op \in MutatingOps /\ last.result = "Ok")
        => /\ file.exists
           /\ Persisted(file) = {processes[n].config : n \in DOMAIN processes}
           /\ Len(file.content) = Cardinality(DOMAIN processes)

\* C5 happens: a mutating operation has succeeded and left a roster that is not empty.
C5_Witness ==
    /\ last.op \in MutatingOps
    /\ last.result = "Ok"
    /\ DOMAIN processes # {}
    /\ file.exists
    /\ file.content # <<>>

\* C6: when the pass that found the child of an autorestart entry exited
\* abnormally has brought the entry back to Running, the entry's restarts
\* counter is exactly one more than when the exit was found.
C6_RecoveryCountsOnce ==
    \A n \in DOMAIN mon.seen :
        ( /\ PassDone
          /\ n \in DOMAIN processes
          /\ mon.seen[n].wait = "exited_err"
          /\ processes[n].config.autorestart
          /\ processes[n].status = "Running" )
        => processes[n].restarts = mon.seen[n].restarts + 1

\* C7: should_restart() returns true exactly when autorestart is set, the
\* status is Errored or Stopped, and no restart was recorded in the last 5
\* seconds; within 5 seconds of the recorded instant it returns false.
C7_ShouldRestartIff ==
    \A n \in DOMAIN mon.seen :
        Visited(n) =>
            ( (n \in mon.due)
              <=> ( /\ processes[n].config.autorestart
                    /\ processes[n].status \in {"Errored", "Stopped"}
                    /\ \/ processes[n].last_restart = NoInstant
                       \/ processes[n].last_restart >= CooldownUnits ) )

\* C7 happens: should_restart() was asked about an autorestart entry that is
\* Errored or Stopped less than 5 seconds after its restart, and said no.
C7_Witness ==
    \E n \in DOMAIN mon.seen :
        /\ Visited(n)
        /\ processes[n].config.autorestart
        /\ processes[n].status \in {"Errored", "Stopped"}
        /\ processes[n].last_restart # NoInstant
        /\ processes[n].last_restart < CooldownUnits
        /\ n \notin mon.due

\* C8: an entry with autorestart off and no memory cap whose child exits is
\* set by the monitor pass to Stopped (success) or Errored (no success), and
\* no step of the monitor restarts it: restarts stays and the status does not
\* come back to Running.
C8_NoAutorestartStaysDown ==
    [][mon' # mon =>
          \A n \in DOMAIN processes :
              ( /\ ~processes[n].config.autorestart
                /\ processes[n].config.max_memory = NoLimit )
              => /\ n \in DOMAIN processes'
                 /\ processes'[n].restarts = processes[n].restarts
                 /\ processes'[n].status = "Running" => processes[n].status = "Running"
                 /\ n \notin Range(mon'.to_restart)
                 /\ (n \in mon.todo /\ n \notin mon'.todo /\ mon'.seen[n].wait = "exited_ok")
                        => processes'[n].status = "Stopped"
                 /\ (n \in mon.todo /\ n \notin mon'.todo /\ mon'.seen[n].wait = "exited_err")
                        => processes'[n].status = "Errored"]_vars

\* C8 happens: a pass has found that the child of such an entry exited without
\* success, has left the entry Errored and is over.
C8_Witness ==
    \E n \in DOMAIN mon.seen :
        /\ PassDone
        /\ n \in DOMAIN processes
        /\ ~processes[n].config.autorestart
        /\ processes[n].config.max_memory = NoLimit
        /\ mon.seen[n].wait = "exited_err"
        /\ processes[n].status = "Errored"
        /\ processes[n].restarts = mon.seen[n].restarts

\* C9 as stated: an entry with max_memory = M is enqueued for the memory cap
\* exactly when its memory usage is above M * 1048576 bytes.
C9_EnqueuedIffAboveCapBytes ==
    \A n \in DOMAIN mon.seen :
        (Visited(n) /\ processes[n].config.max_memory # NoLimit)
            => ( (n \in mon.warned)
                 <=> processes[n].memory_usage > processes[n].config.max_memory * MiB )

\* C9 amended: an entry with max_memory = M is enqueued for the memory cap
\* exactly when its memory usage in whole MiB, rounded down, is above M, that
\* is when the usage is at least (M + 1) * 1048576 bytes; an entry without
\* max_memory is never enqueued for it.
C9_EnqueuedIffWholeMiBAboveCap ==
    \A n \in DOMAIN mon.seen :
        Visited(n) =>
            ( (n \in mon.warned)
              <=> ( /\ processes[n].config.max_memory # NoLimit
                    /\ processes[n].memory_usage
                          >= (processes[n].config.max_memory + 1) * MiB ) )

\* C9 happens: the usage of a visited entry is above the cap in bytes, by less
\* than 1 MiB, and the entry is not enqueued for it.
C9_Witness ==
    \E n \in DOMAIN mon.seen :
        /\ Visited(n)
        /\ processes[n].config.max_memory # NoLimit
        /\ processes[n].memory_usage > processes[n].config.max_memory * MiB
        /\ processes[n].memory_usage < (processes[n].config.max_memory + 1) * MiB
        /\ n \notin mon.warned

\* C10: the restarts counter of an entry never decreases while the entry is in
\* the roster, that is in any step but the start_process that replaces it.
C10_RestartsNeverDecrease ==
    [][\A n \in DOMAIN processes :
          ( /\ n \in DOMAIN processes'
            /\ last'.op = "start_process" => processes'[n].id = processes[n].id )
          => processes'[n].restarts >= processes[n].restarts]_vars

\* the child a roster entry has spawned and not reaped, by its handle or by its pid
ChildrenOf(p) == {p.child, p.pid} \ {NoChild, NoPid}

Alive(o, c) == c \in DOMAIN o /\ o[c] = "alive"

\* C11: a stop_process that returns Ok for a Running entry leaves the entry in
\* the roster with status Stopped, pid null and no child handle, and
\* list_processes shows it so.
C11_StopLeavesStopped ==
    [][\A name \in NamesOf(OneName) :
          ( /\ StopProcess(name)
            /\ name \in DOMAIN processes
            /\ processes[name].status = "Running"
            /\ last'.result = "Ok" )
          => /\ name \in DOMAIN processes'
             /\ processes'[name].status = "Stopped"
             /\ processes'[name].pid = NoPid
             /\ processes'[name].child = NoChild
             /\ \E i \in list_processes(processes') :
                   i.name = name /\ i.status = "Stopped" /\ i.pid = NoPid]_vars

\* C12: after a delete_process that returns Ok the name is not in the roster,
\* the child of the removed entry is not running, and the persisted state does
\* not hold the removed entry's config.
C12_DeleteRemovesAndReaps ==
    [][\A name \in NamesOf(OneName) :
          ( /\ DeleteProcess(name)
            /\ name \in DOMAIN processes
            /\ last'.result = "Ok" )
          => /\ name \notin DOMAIN processes'
             /\ \A c \in ChildrenOf(processes[name]) : ~Alive(os', c)
             /\ processes[name].config \notin Persisted(file')]_vars

\* a step in which connection c has handled its request
Handled(c) == conns[c].pc = "handle" /\ conns'[c].pc = "write"

\* C13: stop_process, restart_process, delete_process, get_process_info and
\* get_logs about a name that is not in the roster return ProcessNotFound and
\* leave the roster, its entries and the persisted state as they were.
C13_AbsentNameChangesNothing ==
    [][\A c \in Conns :
          ( /\ Handled(c)
            /\ conns[c].req.kind \in NameKinds
            /\ conns[c].req.name \notin DOMAIN processes )
          => /\ last'.result = "ProcessNotFound"
             /\ conns'[c].resp = "Error"
             /\ UNCHANGED <<processes, file, os>>]_vars

\* C13 happens: delete_process has returned ProcessNotFound while the roster
\* holds another entry and the persisted state exists.
C13_Witness ==
    /\ last = Result("delete_process", "ProcessNotFound")
    /\ DOMAIN processes # {}
    /\ file.exists

\* C14: every entry of the roster is keyed by its own name and list_processes
\* has one entry per name; after a start_process that returns Ok for a name
\* already in the roster the one entry of that name carries the new id and
\* not the old one.
C14_OneEntryPerName ==
    [][ /\ \A n \in DOMAIN processes' :
              /\ processes'[n].name = n
              /\ processes'[n].config.name = n
              /\ Cardinality({i \in list_processes(processes') : i.name = n}) = 1
        /\ \A config \in OneName :
              ( /\ StartProcess(config)
                /\ config.name \in DOMAIN processes
                /\ last'.result = "Ok" )
              => /\ Cardinality({i \in list_processes(processes') : i.name = config.name}) = 1
                 /\ \A i \in list_processes(processes') :
                       i.name = config.name
                          => /\ i.id # processes[config.name].id
                             /\ i.config = config
                             /\ i.status = "Running" ]_vars

\* C14 happens: start_process has replaced an entry, whose child is still in
\* the process table, by one with a new id.
C14_Witness ==
    /\ last.op = "start_process"
    /\ last.result = "Ok"
    /\ \E n \in DOMAIN processes :
          \E c \in DOMAIN os : c # processes[n].child /\ processes[n].id > 1

\* C15: at most one task holds the ProcessManager at a time, the roster and
\* the persisted state change only in steps of the task that holds it, a start
\* that succeeds leaves every other entry as it was, and when the two clients
\* have got Success for start a and start b the roster holds both entries.
C15_ManagerCallsSerialized ==
    /\ [](\A c \in Conns : conns[c].pc = "handle" <=> lock = c)
    /\ [](lock # NoHolder => mon.pc = "idle")
    /\ []( (\A c \in Conns : Len(conns[c].out) = 1 /\ conns[c].out[1].resp = "Success")
             => /\ DOMAIN processes = {"a", "b"}
                /\ Cardinality(list_processes(processes)) = 2 )
    /\ [][ /\ (processes' # processes \/ file' # file)
                => \/ lock # NoHolder /\ Handled(lock) /\ lock' = NoHolder
                   \/ mon.pc # "idle"
           /\ \A c \in Conns :
                 (Handled(c) /\ conns'[c].resp = "Success")
                    => /\ conns[c].req.name \in DOMAIN processes'
                       /\ \A n \in DOMAIN processes \ {conns[c].req.name} :
                             n \in DOMAIN processes' /\ processes'[n] = processes[n] ]_vars

\* C15 happens: both clients have got Success and the roster holds a and b.
C15_Witness ==
    /\ \A c \in Conns : Len(conns[c].out) = 1 /\ conns[c].out[1].resp = "Success"
    /\ DOMAIN processes = {"a", "b"}

\* C16: a monitor pass starts only in a tick whose try_lock succeeded; a tick
\* that finds the lock held takes its turn at once, starts no pass, changes
\* nothing and is used up, and the monitor task goes to wait for the next tick.
C16_TickNeverWaits ==
    [][ /\ (mon.pc = "idle" /\ mon'.pc # "idle")
              => (lock = NoHolder /\ ticks' = ticks - 1)
        /\ (ticks' < ticks /\ lock # NoHolder)
              => /\ ticks' = ticks - 1
                 /\ mon' = mon
                 /\ UNCHANGED <<processes, file, os, lock, conns>>
        /\ (ticks' < ticks /\ lock = NoHolder) => mon'.pc # "idle"
        /\ (Up /\ mon.pc = "idle" /\ ticks > 0) => ENABLED monitor_tick ]_vars

\* C16 happens: a tick has found the lock held by a connection and is used up
\* without a pass.
C16_Witness ==
    /\ last = Result("try_lock", "WouldBlock")
    /\ lock # NoHolder
    /\ mon.pc = "idle"
    /\ ticks = 0

C18_KillShutsDown ==
    (\E c \in Conns : conns[c].pc = "write" /\ conns[c].req.kind = "KillDaemon")
        ~> (daemon = "down")

\* C19: when a SaveProcesses request is answered Success the persisted state
\* has been rewritten from the roster and holds exactly its configs.
C19_SaveRequestSaves ==
    (last = Result("SaveProcesses", "Ok"))
        => /\ file.exists
           /\ Persisted(file) = {processes[n].config : n \in DOMAIN processes}

\* C20: after a ResurrectProcesses that succeeds the roster has one entry per
\* persisted config and each of these entries is Running with a pid and a
\* child handle.
C20_ResurrectRespawns ==
    (last.op = "load_state" /\ last.result = "Ok")
        => /\ {processes[n].config : n \in DOMAIN processes} = Persisted(file)
           /\ \A n \in DOMAIN processes :
                 /\ processes[n].status = "Running"
                 /\ processes[n].pid # NoPid
                 /\ processes[n].child # NoChild

ConfigsOf(procs) == {procs[n].config : n \in DOMAIN procs}

\* save_state() of a roster, then load_state() by a manager that holds none of it
RoundTrip(procs, order) ==
    load_processes(save_state(procs, TRUE, order).content, [i \in 1..Len(order) |-> i])

\* C21: save_state() followed by load_state() on a fresh manager yields a
\* roster whose configs are those of the saved roster, as a set and whatever
\* the order they were written in, with exactly one entry per original name.
C21_RoundTripKeepsConfigs ==
    /\ [](\A order \in Orders(DOMAIN processes) :
             LET loaded == RoundTrip(processes, order)
             IN /\ ConfigsOf(loaded) = ConfigsOf(processes)
                /\ DOMAIN loaded = DOMAIN processes
                /\ \A n \in DOMAIN loaded : loaded[n].config.name = n)
    /\ [][( /\ ResurrectProcesses
            /\ processes = EmptyMap
            /\ file.exists
            /\ faults' = faults )
          => /\ ConfigsOf(processes') = Persisted(file)
             /\ Cardinality(DOMAIN processes') = Len(file.content)
             /\ \A n \in DOMAIN processes' : processes'[n].config.name = n]_vars

\* C21 happens: a fresh manager has loaded a saved roster of two entries,
\* written in the order b, a.
C21_Witness ==
    /\ last.op = "load_state"
    /\ DOMAIN processes = {"a", "b"}
    /\ file.exists
    /\ Len(file.content) = 2
    /\ file.content[1].name = "b"
    /\ ConfigsOf(processes) = Persisted(file)
    /\ \A n \in DOMAIN processes : processes[n].status = "Stopped"

\* C22: if the state-file write fails during start_process, stop_process,
\* restart_process or delete_process, the mutation made in memory is kept
\* (the roster and the child's state are not rolled back) and the failure of
\* the save is returned to the caller as the error of the operation.
C22_FailedSaveKeepsMutation ==
    [][ /\ \A config \in SaveConfigs :
              start_process(config, TRUE, FALSE)
                  => /\ last'.result = "ConfigError"
                     /\ config.name \in DOMAIN processes'
                     /\ processes'[config.name].config = config
                     /\ processes'[config.name].status = "Running"
                     /\ Alive(os', processes'[config.name].child)
        /\ \A name \in DOMAIN processes :
              /\ (\E kill_ok \in KillOutcomesOf(name) : stop_process(name, kill_ok, FALSE))
                    => /\ last'.result = "ConfigError"
                       /\ processes'[name].child = NoChild
                       /\ processes[name].child # NoChild
                             => /\ processes'[name].status = "Stopped"
                                /\ processes'[name].pid = NoPid
                                /\ ~Alive(os', processes[name].child)
              /\ (\E kill_ok \in KillOutcomesOf(name) :
                        restart_process(name, kill_ok, TRUE, FALSE))
                    => /\ last'.result = "ConfigError"
                       /\ processes'[name].restarts = processes[name].restarts + 1
                       /\ processes'[name].status = "Running"
                       /\ processes'[name].last_restart = 0
              /\ (\E kill_ok \in KillOutcomesOf(name) : delete_process(name, kill_ok, FALSE))
                    => /\ last'.result = "ConfigError"
                       /\ name \notin DOMAIN processes'
                       /\ processes[name].child # NoChild
                             => ~Alive(os', processes[name].child) ]_vars

\* C22 happens: a delete whose save failed has returned the error, the entry
\* is gone from the roster and processes.json still lists it.
C22_Witness ==
    /\ last = Result("delete_process", "ConfigError")
    /\ processes = EmptyMap
    /\ file.exists
    /\ file.content # <<>>

\* a connection whose handler is in the middle of a request: it waits for
\* the manager lock, holds it, or has its response still to write
InFlight(c) == conns[c].pc \in {"lock", "handle", "write"}

\* C23: daemon shutdown does not stop supervised children: the shutdown
\* signals no child, and the set of running child processes is the same after
\* it as before it.
C23_ShutdownKeepsChildren ==
    [][(Up /\ daemon' = "down")
          => /\ os' = os
             /\ \A c \in DOMAIN os : Alive(os, c) => Alive(os', c)]_vars

\* C23 happens: the daemon is down and a child it supervised is alive.
C23_Witness ==
    /\ daemon = "down"
    /\ \E n \in DOMAIN processes :
          /\ processes[n].status = "Running"
          /\ Alive(os, processes[n].child)

\* C24: a handler that is in the middle of a request when shutdown is
\* triggered runs to completion before the daemon exits: once the daemon is
\* down no connection is left with a request read and its response unwritten.
C24_InFlightHandlerCompletes ==
    daemon = "down" => \A c \in Conns : ~InFlight(c)

\* C25: ManagedProcess::stop on an entry with a running child eventually
\* returns, with the child reaped, the handle and the pid cleared and the
\* status Stopped, so that the manager lock its caller holds is eventually
\* released.
C25_StopReturnsReaped ==
    \A c \in Conns :
        (conns[c].pc = "wait")
            ~> ( /\ lock = NoHolder
                 /\ conns[c].pc = "write"
                 /\ "a" \in DOMAIN processes
                 /\ processes["a"].status = "Stopped"
                 /\ processes["a"].child = NoChild
                 /\ processes["a"].pid = NoPid )

\* C26: every line a running child writes to its standard output or standard
\* error is eventually appended to the log buffer of its entry, where a later
\* get_logs finds it.
C26_OutputReachesLogBuffer ==
    \A c \in 1..MaxChildren :
        (pipes[c] > 0)
            ~> (\E n \in DOMAIN processes :
                   processes[n].pid = c /\ processes[n].log_buffer # <<>>)

\* C27: get_logs(name, n) for an existing entry returns the last min(n, len)
\* lines of the entry's log buffer in their original order: the whole buffer
\* when it holds at most n lines, and an empty list when n = 0; the buffer
\* itself is not modified.
C27_GetLogsReturnsTail ==
    [][\A name \in DOMAIN processes : \A n \in 0..(MaxLines + 2) :
          GetLogs(name, n)
              => LET buf == processes[name].log_buffer
                     m == IF n < Len(buf) THEN n ELSE Len(buf)
                 IN /\ last'.result = "Ok"
                    /\ last'.value = [i \in 1..m |-> buf[Len(buf) - m + i]]
                    /\ Len(buf) <= n => last'.value = buf
                    /\ n = 0 => last'.value = <<>>
                    /\ processes' = processes]_vars

\* C27 happens: get_logs has returned the last two of three lines.
C27_Witness ==
    /\ last.op = "get_logs"
    /\ last.result = "Ok"
    /\ processes["a"].log_buffer = <<"x", "y", "x">>
    /\ last.value = <<"y", "x">>

\* C28: for every parsed request the handler produces exactly one response,
\* whose variant is determined by the request and the result of the manager:
\* a failure of the manager always becomes Error and the connection is not
\* dropped, ListProcesses yields ProcessList, a found GetProcessInfo yields
\* ProcessInfo, a found GetLogs yields Logs, and every other successful
\* request yields Success.
C28_ResponseVariantDetermined ==
    [][\A c \in Conns :
          /\ Handled(c)
                => LET kind == conns[c].req.kind
                       ok == last'.result = "Ok"
                       resp == conns'[c].resp
                   IN /\ ~ok => resp = "Error"
                      /\ (ok /\ kind = "ListProcesses") => resp = "ProcessList"
                      /\ (ok /\ kind = "GetProcessInfo") => resp = "ProcessInfo"
                      /\ (ok /\ kind = "GetLogs") => resp = "Logs"
                      /\ (ok /\ kind \notin {"ListProcesses", "GetProcessInfo", "GetLogs"})
                            => resp = "Success"
          /\ (conns[c].pc = "write" /\ conns'[c] # conns[c])
                => /\ conns'[c].pc = "read"
                   /\ conns'[c].out = Append(conns[c].out, Frame(conns[c].n, conns[c].resp))]_vars

\* C28 happens: a connection has got Error for its first request, Success
\* for its second and ProcessInfo for its third.
C28_Witness ==
    \E c \in Conns :
        /\ Len(conns[c].out) = 3
        /\ conns[c].out[1].resp = "Error"
        /\ conns[c].out[2].resp = "Success"
        /\ conns[c].out[3].resp = "ProcessInfo"

\* C29: a monitor pass never aborts: it returns only when it has visited
\* every entry of the roster and attempted every restart it queued, a failure
\* while checking or restarting one entry does not end it, and
\* monitor_processes reports no error.
C29_PassNeverAborts ==
    [][ /\ (mon.pc # "idle" /\ mon'.pc = "idle")
              => /\ DOMAIN mon.seen = DOMAIN processes
                 /\ mon.idx = Len(mon.to_restart) + 1
                 /\ last' = Result("monitor_processes", "Ok")
        /\ (mon.pc # "idle" /\ faults' > faults)
              => /\ mon'.pc # "idle"
                 /\ mon.pc = "check" => mon'.todo = mon.todo \ DOMAIN mon'.seen
                 /\ mon.pc = "restart" => mon'.idx = mon.idx + 1 ]_vars

\* C29 happens: the pass has queued both entries, the restart of the first
\* has failed and the second has been restarted all the same.
C29_Witness ==
    /\ PassDone
    /\ Len(mon.to_restart) = 2
    /\ DOMAIN mon.seen = {"a", "b"}
    /\ processes[mon.to_restart[1]].status = "Errored"
    /\ processes[mon.to_restart[1]].restarts = 1
    /\ processes[mon.to_restart[2]].status = "Running"
    /\ processes[mon.to_restart[2]].restarts = 1

\* C30: the started_at of an entry changes only when a spawn succeeds, in
\* start or in the start step of restart: a step that changes the started_at
\* shown for a name has given the entry of that name a new child.
C30_StartedAtOnlyOnSpawn ==
    [][\A n \in (DOMAIN processes) \cap (DOMAIN processes') :
          processes'[n].started_at # processes[n].started_at
              => /\ processes'[n].child # NoChild
                 /\ processes'[n].child # processes[n].child
                 /\ processes'[n].status = "Running"]_vars

\* C31: the status of an entry changes only along the edges of the lifecycle:
\* Stopped or Errored to Running by a successful start, Running to Stopped by
\* stop or by a success exit seen in check_status, Running to Errored by a
\* non-success exit or a reap error, and to Errored on a spawn failure; no
\* entry is ever Restarting.
C31_StatusFollowsLifecycle ==
    /\ [](\A n \in DOMAIN processes : processes[n].status \in {"Stopped", "Running", "Errored"})
    /\ [][\A n \in (DOMAIN processes) \cap (DOMAIN processes') :
             LET s == processes[n].status
                 t == processes'[n].status
             IN s # t =>
                  \/ /\ s \in {"Stopped", "Errored"}
                     /\ t = "Running"
                     /\ processes'[n].child # NoChild
                     /\ last'.op \in {"start_process", "restart_process"}
                  \/ /\ s = "Running"
                     /\ t = "Stopped"
                     /\ \/ last'.op = "stop_process"
                        \/ /\ last'.op = "check_status"
                           /\ n \in DOMAIN mon'.seen
                           /\ mon'.seen[n].wait = "exited_ok"
                  \/ /\ s = "Running"
                     /\ t = "Errored"
                     /\ last'.op = "check_status"
                     /\ n \in DOMAIN mon'.seen
                     /\ mon'.seen[n].wait \in {"exited_err", "error"}
                  \/ /\ t = "Errored"
                     /\ last'.op = "restart_process"
                     /\ last'.result = "ProcessError"]_vars

\* C32: if the spawn inside restart() fails, restart returns a ProcessError
\* and leaves the entry Errored, with no child handle and no pid, with
\* restarts incremented by 1 and the restart instant recorded, so that the
\* cool-down holds back the next automatic restart.
C32_FailedRestartLeavesErrored ==
    [][\A name \in DOMAIN processes :
          (\E kill_ok \in KillOutcomesOf(name), wr_ok \in BOOLEAN :
               restart_process(name, kill_ok, FALSE, wr_ok))
              => /\ last'.result = "ProcessError"
                 /\ processes'[name].status = "Errored"
                 /\ processes'[name].child = NoChild
                 /\ processes'[name].pid = NoPid
                 /\ processes'[name].restarts = processes[name].restarts + 1
                 /\ processes'[name].last_restart = 0
                 /\ ~should_restart(processes'[name])]_vars

\* the monitor restarts the entry it has queued at place idx: the entry's
\* restart is counted and its instant recorded
AutoRestarted(name) ==
    /\ mon.pc = "restart"
    /\ mon.idx <= Len(mon.to_restart)
    /\ mon.to_restart[mon.idx] = name
    /\ mon'.idx = mon.idx + 1
    /\ processes'[name].restarts = processes[name].restarts + 1

\* C33: two consecutive restarts the monitor makes of the same entry, be it
\* for an exit or for the memory cap, are never less than 5 seconds apart.
C33_AutoRestartsCoolDown ==
    [][\A name \in DOMAIN processes :
          (AutoRestarted(name) /\ processes[name].last_restart # NoInstant)
              => processes[name].last_restart + SleepUnits >= CooldownUnits]_vars

\* C34: within one monitor pass every entry is put on the restart list at most
\* once, even when should_restart() and the memory cap both hold for it, so a
\* pass restarts an entry at most once and raises its restarts by at most 1
C34_OnePassOneRestart ==
    \A name \in DOMAIN mon.seen :
        /\ Count(name, mon.to_restart) <= 1
        /\ processes[name].restarts <= mon.seen[name].restarts + 1

\* C35: the memory-cap restart is decided on memory sampled now: an entry
\* whose child is not running when the pass checks it (no child, or a child
\* found exited) is never put on the restart list for the memory cap on the
\* strength of a memory_usage sampled while an earlier child ran
C35_MemoryCapOnCurrentSample ==
    \A name \in mon.warned : mon.seen[name].wait = "running"

\* C36: once stop_process(name) has returned Ok the entry stays Stopped until
\* a client starts, restarts or reloads it: no step of a monitor pass takes
\* it out of Stopped, whatever its autorestart setting
C36_StoppedStaysStopped ==
    [][\A name \in (DOMAIN processes) \cap (DOMAIN processes') :
          (processes[name].status = "Stopped" /\ mon.pc # "idle")
            => processes'[name].status = "Stopped"]_vars

\* C37: a roster persisted before a daemon restart stays recoverable: from the
\* start-up of the daemon, which has an empty roster, up to its first
\* ResurrectProcesses, no operation rewrites the state file so that an entry
\* persisted before is gone from it. Stated for the first operation after
\* start-up.
C37_PersistedRosterSurvivesStartup ==
    [][(last.op = "new" /\ file.exists)
         => /\ file'.exists
            /\ Persisted(file) \subseteq Persisted(file')]_vars

\* C38: when the spawn inside start_process(cfg) fails the call returns
\* ProcessError and leaves the roster and the persisted state as they were: no
\* entry is inserted, and an entry already under that name, with its running
\* child, is untouched
C38_FailedStartChangesNothing ==
    [][\A config \in SaveConfigs :
          start_process(config, FALSE, TRUE)
            => /\ last'.op = "start_process"
               /\ last'.result = "ProcessError"
               /\ processes' = processes
               /\ file' = file
               /\ os' = os]_vars

C38_Witness ==
    /\ last.op = "start_process"
    /\ last.result = "ProcessError"
    /\ "a" \in DOMAIN processes
    /\ processes["a"].status = "Running"
    /\ processes["a"].child # NoChild
    /\ os[processes["a"].child] = "alive"
    /\ Persisted(file) = {CfgA2}

\* C39: a request frame that does not parse never reaches the ProcessManager:
\* the handler does not take the lock, the roster and the persisted state
\* stay as they are, the handler of that connection alone ends, without
\* writing a response frame, and the daemon and every other connection go on
\* being served
C39_UnparsableFrameEndsOneHandler ==
    /\ [][\A c \in Conns :
            conn_unparsable(c, MaxFrames)
              => /\ lock' = lock /\ lock # c
                 /\ processes' = processes /\ file' = file /\ os' = os
                 /\ conns'[c].pc = "closed"
                 /\ conns'[c].out = conns[c].out
                 /\ \A d \in Conns \ {c} : conns'[d] = conns[d]
                 /\ daemon' = daemon /\ mon' = mon]_vars
    /\ [](\A c \in Conns : ParseFailed(c) =>
            /\ Up /\ lock # c
            /\ \A d \in Conns \ {c} :
                  /\ (conns[d].pc = "lock" /\ LockFree) => ENABLED conn_lock(d)
                  /\ conns[d].pc = "write" => ENABLED conn_write(d))

C39_Witness ==
    /\ ParseFailed(1)
    /\ conns[1].n = 2
    /\ conns[1].out = <<Frame(1, "Success")>>
    /\ conns[2].out = <<Frame(1, "Success")>>
    /\ DOMAIN processes = {"a", "b"}
    /\ Persisted(file) = {CfgA2, CfgB2}

====
